---- MODULE Spec2Model ----
(***************************************************************************)
(* A model of gceformatter.go: the logrus formatter that writes one JSON   *)
(* line per log entry in the shape Google Cloud Logging reads, with an     *)
(* optional source location found by walking the call stack.               *)
(*                                                                         *)
(* Go strings are sequences of chunks (TLA+ strings): "disk full" is       *)
(* <<"disk full">>, the empty string is <<>>.  A chunk is a run of         *)
(* ordinary characters, or one of the special characters named below.      *)
(***************************************************************************)
EXTENDS Integers, Sequences, FiniteSets, TLC

\* ---------------------------------------------------------------- bounds

\* Goroutines that call Format.
NumProcs == 2
\* Call paths enter Format through 0..MaxFw logging-framework frames.
MaxFw == 1
\* An entry carries at most MaxFields fields.
MaxFields == 1

\* ------------------------------------------------- levels and severities

PanicLevel == "PanicLevel"
FatalLevel == "FatalLevel"
ErrorLevel == "ErrorLevel"
WarnLevel == "WarnLevel"
InfoLevel == "InfoLevel"
DebugLevel == "DebugLevel"
\* A logrus level the table below has no entry for.
TraceLevel == "TraceLevel"

Levels == {PanicLevel, FatalLevel, ErrorLevel, WarnLevel, InfoLevel, DebugLevel, TraceLevel}

severityDEBUG == <<"DEBUG">>
severityINFO == <<"INFO">>
severityNOTICE == <<"NOTICE">>
severityWARNING == <<"WARNING">>
severityERROR == <<"ERROR">>
severityCRITICAL == <<"CRITICAL">>
severityALERT == <<"ALERT">>
severityEMERGENCY == <<"EMERGENCY">>

\* The map literal; a level that is not a key reads as the zero value "".
levelsLogrusToGCEMutNotice(level) ==
  CASE level = DebugLevel -> severityDEBUG
    [] level = InfoLevel -> severityNOTICE
    [] level = WarnLevel -> severityWARNING
    [] level = ErrorLevel -> severityERROR
    [] level = FatalLevel -> severityCRITICAL
    [] level = PanicLevel -> severityALERT
    [] OTHER -> <<>>

levelsLogrusToGCE(level) ==
  CASE level = DebugLevel -> severityDEBUG
    [] level = InfoLevel -> severityINFO
    [] level = WarnLevel -> severityWARNING
    [] level = ErrorLevel -> severityERROR
    [] level = FatalLevel -> severityCRITICAL
    [] level = PanicLevel -> severityALERT
    [] OTHER -> <<>>

\* ------------------------------------------------------------ call stack

\* The size of the buffer handed to runtime.Callers.
Window == 20

\* The prefix getSkipLevel tests function names against.
logrusPrefix == <<"github.com/sirupsen/logrus">>

HasPrefix(s, prefix) ==
  /\ Len(s) >= Len(prefix)
  /\ SubSeq(s, 1, Len(prefix)) = prefix

\* A call path into Format: fw frames of the logging framework (Format's
\* caller first), then app frames of the application and the runtime.  The
\* frame at position i is the one runtime.Caller(i) reports from Format.
Frame(stack, i) ==
  IF i <= stack.fw
    THEN [function |-> logrusPrefix \o <<".(*Entry).log">>,
          file |-> <<"logrus/entry.go">>, line |-> i]
    ELSE [function |-> <<"main", ".handler">>,
          file |-> <<"main.go">>, line |-> i]

StackLen(stack) == stack.fw + stack.app

\* runtime.Callers(skip, buf) called in getSkipLevel: 0 is Callers itself,
\* 1 getSkipLevel, 2 Format, 3 the frame at position 1.  Slots past the end
\* of the stack keep the zero program counter.
Callers(skip, size, stack) ==
  [j \in 1..size |->
     IF skip - 3 + j >= 1 /\ skip - 3 + j <= StackLen(stack) THEN skip - 3 + j ELSE 0]

\* runtime.FuncForPC(pc).Name(): the nil *Func of the zero pc has the name "".
FuncName(stack, pc) == IF pc = 0 THEN <<>> ELSE Frame(stack, pc).function

\* The loop over the buffer: the first slot whose function name lacks the
\* prefix yields i + 1 (i counted from 0), which is j counted from 1; 0 stands
\* for falling out of the loop.
RECURSIVE ScanFrom(_, _, _)
ScanFrom(stack, buf, j) ==
  IF j > Len(buf) THEN 0
  ELSE IF HasPrefix(FuncName(stack, buf[j]), logrusPrefix)
    THEN ScanFrom(stack, buf, j + 1)
    ELSE j

\* What the walk of getSkipLevel finds along stack: the depth i + 1 of the
\* first frame outside the framework, or nothing.
WalkMutDefaultZero(stack) ==
  [found |-> TRUE, depth |-> ScanFrom(stack, Callers(3, Window, stack), 1)]

Walked(stack) ==
  LET d == ScanFrom(stack, Callers(3, Window, stack), 1)
  IN [found |-> d # 0, depth |-> d]

\* runtime.Caller(skip) called in Format: 0 is Format itself; past the end of
\* the stack it reports ok = false.
Caller(stack, skip) ==
  IF skip = 0
    THEN [ok |-> TRUE,
          frame |-> [function |-> <<"github.com/marcelhuth/logrus-gce", ".(*GCEFormatter).Format">>,
                     file |-> <<"gceformatter.go">>, line |-> 119]]
  ELSE IF skip <= StackLen(stack)
    THEN [ok |-> TRUE, frame |-> Frame(stack, skip)]
    ELSE [ok |-> FALSE, frame |-> [function |-> <<>>, file |-> <<>>, line |-> 0]]

\* ------------------------------------------------------------- Go values

\* A byte that is not valid UTF-8, and the character json.Marshal and a JSON
\* decoder put in its place.
BadByte == "<0xff>"
ReplChar == "<U+FFFD>"

GoString(s) == [kind |-> "string", s |-> s, n |-> 0, m |-> <<>>]
GoInt(n) == [kind |-> "int", s |-> <<>>, n |-> n, m |-> <<>>]
\* A value with an Error() method; s is the text Error() returns.
GoError(s) == [kind |-> "error", s |-> s, n |-> 0, m |-> <<>>]
\* A channel: a value encoding/json has no encoding for.
GoChan == [kind |-> "chan", s |-> <<>>, n |-> 0, m |-> <<>>]
GoMap(m) == [kind |-> "map", s |-> <<>>, n |-> 0, m |-> m]

\* m[k] = v on a Go map.
Put(m, k, v) == [x \in DOMAIN m \cup {k} |-> IF x = k THEN v ELSE m[x]]

\* ------------------------------------------------------------------ time

\* A time.Time: sec seconds and nsec nanoseconds since the epoch, shown in a
\* zone offset seconds east of UTC.
\* The digits of the fraction: nine, less the trailing zeros.
RECURSIVE TrimZeros(_)
TrimZeros(n) == IF n # 0 /\ n % 10 = 0 THEN TrimZeros(n \div 10) ELSE n

RECURSIVE TrailingZeros(_)
TrailingZeros(n) == IF n # 0 /\ n % 10 = 0 THEN 1 + TrailingZeros(n \div 10) ELSE 0

RECURSIVE Digits(_)
Digits(n) == IF n < 10 THEN 1 ELSE 1 + Digits(n \div 10)

RECURSIVE Zeros(_)
Zeros(k) == IF k <= 0 THEN "" ELSE "0" \o Zeros(k - 1)

Pad2(n) == IF n < 10 THEN "0" \o ToString(n) ELSE ToString(n)

\* time.RFC3339Nano, "2006-01-02T15:04:05.999999999Z07:00": the wall clock of
\* the zone (here its count of seconds), the fraction when it is not zero, and
\* the zone as Z or as hours and minutes, the offset's odd seconds dropped.
FormatRFC3339Nano(t) ==
  LET wall == <<"T" \o ToString(t.sec + t.offset)>>
      frac == IF t.nsec = 0 THEN <<>>
              ELSE <<"." \o Zeros(9 - TrailingZeros(t.nsec) - Digits(TrimZeros(t.nsec)))
                        \o ToString(TrimZeros(t.nsec))>>
      mins == (IF t.offset < 0 THEN 0 - t.offset ELSE t.offset) \div 60
      zone == IF t.offset = 0 THEN <<"Z">>
              ELSE <<(IF t.offset < 0 THEN "-" ELSE "+") \o Pad2(mins \div 60)
                        \o ":" \o Pad2(mins % 60)>>
  IN wall \o frac \o zone

\* ------------------------------------------------------------------ JSON

\* The bytes json.Marshal writes are modelled as its tokens: punctuation, string
\* literals (s: the chunks between the quotes) and number literals.
Punct(c) == [t |-> c, s |-> <<>>, n |-> 0]
StrTok(s) == [t |-> "string", s |-> s, n |-> 0]
NumTok(n) == [t |-> "number", s |-> <<>>, n |-> n]
Newline == Punct("\n")

\* encoding/json writes invalid UTF-8 as an escape (U+FFFD) and the HTML
\* characters as escapes too; a decoder reads each escape as its character.
EscapeChunk(c) ==
  CASE c = BadByte -> "\\ufffd"
    [] c = "<" -> "\\u003c"
    [] OTHER -> c

UnescapeChunk(c) ==
  CASE c = "\\ufffd" -> ReplChar
    [] c = "\\u003c" -> "<"
    [] OTHER -> c

EscapeString(s) == [i \in 1..Len(s) |-> EscapeChunk(s[i])]
UnescapeString(s) == [i \in 1..Len(s) |-> UnescapeChunk(s[i])]

srcLocKey == "logging.googleapis.com/sourceLocation"

\* The keys of the model in byte order: json.Marshal writes a map's members
\* sorted by key.
KeyOrder ==
  <<"file", "function", "line", srcLocKey, "message", "path", "severity", "time">>

SortedKeys(m) == SelectSeq(KeyOrder, LAMBDA k : k \in DOMAIN m)

RECURSIVE Representable(_)
Representable(v) ==
  CASE v.kind = "chan" -> FALSE
    [] v.kind = "map" -> \A k \in DOMAIN v.m : Representable(v.m[k])
    [] OTHER -> TRUE

RECURSIVE EncodeValue(_)
RECURSIVE EncodeMembers(_, _)
EncodeMembers(m, keys) ==
  IF keys = <<>> THEN <<>>
  ELSE <<StrTok(EscapeString(<<Head(keys)>>)), Punct(":")>>
         \o EncodeValue(m[Head(keys)])
         \o (IF Len(keys) > 1 THEN <<Punct(",")>> ELSE <<>>)
         \o EncodeMembers(m, Tail(keys))

EncodeValue(v) ==
  CASE v.kind = "string" -> <<StrTok(EscapeString(v.s))>>
    [] v.kind = "int" -> <<NumTok(v.n)>>
    \* a value with no exported fields, such as an errors.New error
    [] v.kind = "error" -> <<Punct("{"), Punct("}")>>
    [] v.kind = "map" ->
         <<Punct("{")>> \o EncodeMembers(v.m, SortedKeys(v.m)) \o <<Punct("}")>>

\* json.Marshal(data): the error of the first value it cannot encode, or the
\* bytes.
Marshal(data) ==
  IF Representable(GoMap(data))
    THEN [err |-> <<>>, bytes |-> EncodeValue(GoMap(data))]
    ELSE [err |-> <<"json: unsupported type: chan int">>, bytes |-> <<>>]

\* A JSON decoder, as a reader of the output would run it (json.Unmarshal into
\* interface{}): strings, numbers and objects.
JString(s) == [kind |-> "string", s |-> s, n |-> 0, m |-> <<>>]
JNumber(n) == [kind |-> "number", s |-> <<>>, n |-> n, m |-> <<>>]
JObject(m) == [kind |-> "object", s |-> <<>>, n |-> 0, m |-> m]
JInvalid == [kind |-> "invalid", s |-> <<>>, n |-> 0, m |-> <<>>]

ParseFail == [ok |-> FALSE, v |-> JInvalid, next |-> 0]

RECURSIVE ParseValue(_, _)
RECURSIVE ParseMembers(_, _, _)
\* At toks[i]: a member's key, after "{" or ",".
ParseMembers(toks, i, acc) ==
  IF i + 2 > Len(toks) \/ toks[i].t # "string" \/ Len(toks[i].s) # 1 \/ toks[i + 1].t # ":"
    THEN ParseFail
  ELSE LET r == ParseValue(toks, i + 2)
           obj == Put(acc, UnescapeChunk(toks[i].s[1]), r.v)
       IN IF ~r.ok \/ r.next > Len(toks) THEN ParseFail
          ELSE IF toks[r.next].t = "," THEN ParseMembers(toks, r.next + 1, obj)
          ELSE IF toks[r.next].t = "}" THEN [ok |-> TRUE, v |-> JObject(obj), next |-> r.next + 1]
          ELSE ParseFail

ParseValue(toks, i) ==
  IF i > Len(toks) THEN ParseFail
  ELSE CASE toks[i].t = "string" ->
              [ok |-> TRUE, v |-> JString(UnescapeString(toks[i].s)), next |-> i + 1]
         [] toks[i].t = "number" ->
              [ok |-> TRUE, v |-> JNumber(toks[i].n), next |-> i + 1]
         [] toks[i].t = "{" ->
              IF i + 1 <= Len(toks) /\ toks[i + 1].t = "}"
                THEN [ok |-> TRUE, v |-> JObject(<<>>), next |-> i + 2]
                ELSE ParseMembers(toks, i + 1, <<>>)
         [] OTHER -> ParseFail

\* One value, then nothing but white space.
Decode(bytes) ==
  LET r == ParseValue(bytes, 1)
  IN IF r.ok /\ \A i \in r.next..Len(bytes) : bytes[i] = Newline THEN r.v ELSE JInvalid

\* ---------------------------------------------------------------- Format

ErrNil == <<>>
ErrSkipNotFound == <<"could not find skips for log level">>

\* The loop over entry.Data: an error is stored as the text of Error(), any
\* other value as it is.
CopyFieldsMutNoCoerce(Data) == Data

CopyFields(Data) ==
  [k \in DOMAIN Data |->
     IF Data[k].kind = "error" THEN GoString(Data[k].s) ELSE Data[k]]

\* data["time"], data["severity"], data["message"].
StampReservedMutKeepField(data, e) ==
  LET PutNew(m, k, v) == IF k \in DOMAIN m THEN m ELSE Put(m, k, v)
  IN PutNew(PutNew(PutNew(data, "time", GoString(FormatRFC3339Nano(e.Time))),
                   "severity", GoString(levelsLogrusToGCE(e.Level))),
            "message", GoString(e.Message))

StampReserved(data, e) ==
  Put(Put(Put(data, "time", GoString(FormatRFC3339Nano(e.Time))),
          "severity", GoString(levelsLogrusToGCE(e.Level))),
      "message", GoString(e.Message))

\* The frame runtime.Caller(skip) reports, when it reports one, under the
\* source location key.
AttachSource(data, stack, d) ==
  LET c == Caller(stack, d)
  IN IF c.ok
       THEN Put(data, srcLocKey,
                GoMap([file |-> GoString(c.frame.file),
                       line |-> GoInt(c.frame.line),
                       function |-> GoString(c.frame.function)]))
       ELSE data

\* if f.withSourceInfo
NeedsSourceMutAlways(w) == TRUE

NeedsSource(w) == w

\* What Format returns for entry e on a formatter with withSourceInfo = w,
\* called along stack, once getSkipLevel (when called) has returned (d, skipErr).
\* The caller's entry once Format has run: the map made by make(logrus.Fields,
\* ...) takes every write of Format (the copies, the three stamps, the source
\* location); entry.Data, entry.Time, entry.Level and entry.Message are read.
RecordAfterMutInPlace(e) == [e EXCEPT !.Data = StampReserved(CopyFields(e.Data), e)]

RecordAfter(e) == e

FormatReturnMutKeepBytes(e, w, stack, d, skipErr) ==
  LET data == StampReserved(CopyFields(e.Data), e)
      bytes == EncodeValue(GoMap([k \in {x \in DOMAIN data : Representable(data[x])} |-> data[k]]))
  IN IF NeedsSource(w) /\ skipErr # ErrNil
       THEN [ret |-> skipErr, out |-> <<>>]
       ELSE LET r == Marshal(IF NeedsSource(w) THEN AttachSource(data, stack, d) ELSE data)
            IN IF r.err # ErrNil
                 THEN [ret |-> <<"failed to marshal fields to JSON, ">> \o r.err, out |-> bytes]
                 ELSE [ret |-> ErrNil, out |-> r.bytes]

FormatReturn(e, w, stack, d, skipErr) ==
  LET data == StampReserved(CopyFields(e.Data), e)
  IN IF NeedsSource(w) /\ skipErr # ErrNil
       THEN [ret |-> skipErr, out |-> <<>>]
       ELSE LET r == Marshal(IF NeedsSource(w) THEN AttachSource(data, stack, d) ELSE data)
            IN IF r.err # ErrNil
                 THEN [ret |-> <<"failed to marshal fields to JSON, ">> \o r.err, out |-> <<>>]
                 ELSE [ret |-> ErrNil, out |-> Append(r.bytes, Newline)]

\* ----------------------------------------------------------------- inputs

Procs == 1..NumProcs

\* Every goroutine's stack ends in frames of the application and the runtime
\* (runtime.goexit at least), so app >= 1; fw = Window is a path whose first
\* Window frames are all framework frames.
Stacks == [fw : (0..MaxFw) \cup {Window}, app : {1}]

Time0 == [sec |-> 100, nsec |-> 0, offset |-> 0]

NilEntry == [Data |-> <<>>, Time |-> Time0, Level |-> "", Message |-> <<>>]
NilStack == [fw |-> 0, app |-> 0]
NoResult == [called |-> FALSE, ok |-> FALSE, depth |-> 0]

\* The entries of the concurrent specification: two levels, one field.
ConcLevels == {InfoLevel, ErrorLevel}
ConcEntries ==
  [Data : {[k \in {"path"} |-> GoString(<<"/data">>)]},
   Time : {Time0},
   Level : ConcLevels,
   Message : {<<"disk full">>}]

\* The entries of the formatting specification.
FieldKeys == {"path", "message", srcLocKey}
FieldValues ==
  {GoString(<<"/data">>), GoString(<<"<", BadByte>>), GoInt(7),
   GoError(<<"boom">>), GoChan}
FieldMaps ==
  UNION {[ks -> FieldValues] : ks \in {x \in SUBSET FieldKeys : Cardinality(x) <= MaxFields}}
Times ==
  {Time0, [sec |-> 100, nsec |-> 5000, offset |-> 3690]}
Messages == {<<"disk full">>, <<"a", BadByte>>}
FmtEntries == [Data : FieldMaps, Time : Times, Level : Levels, Message : Messages]

\* ------------------------------------------------------------------ state

VARIABLES
  stackSkips,      \* the map from level to skip depth
  muReaders,       \* stackSkipsMu: the goroutines holding it shared
  muWriter,        \* stackSkipsMu: the goroutine holding it exclusively
  pc,              \* where each goroutine is in Format and getSkipLevel
  entry,           \* the entry of the goroutine's call
  withSourceInfo,  \* the formatter's withSourceInfo
  stack,           \* the call path of the call, set by the step that reads it
  skip,            \* the depth getSkipLevel returned
  ret,             \* the error Format returned
  out,             \* the bytes Format returned
  record,          \* the caller's entry as Format leaves it
  how,             \* history: where skip came from (shared, recheck, walk)
  unseen,          \* history: the level had no entry when the call began
  prev,            \* history: the value of last for the level when the call began
  last,            \* history: per level, what getSkipLevel returned last
  stores,          \* history: per level, the walks that stored a depth
  conc,            \* history: the pairs of goroutines whose calls overlap
  input            \* the formatting specification's entry

vars ==
  <<stackSkips, muReaders, muWriter, pc, entry, withSourceInfo, stack, skip,
    ret, out, record, how, unseen, prev, last, stores, conc, input>>

InitState ==
  /\ stackSkips = <<>>
  /\ muReaders = {}
  /\ muWriter = {}
  /\ pc = [p \in Procs |-> "idle"]
  /\ entry = [p \in Procs |-> NilEntry]
  /\ withSourceInfo = [p \in Procs |-> FALSE]
  /\ stack = [p \in Procs |-> NilStack]
  /\ skip = [p \in Procs |-> 0]
  /\ ret = [p \in Procs |-> ErrNil]
  /\ out = [p \in Procs |-> <<>>]
  /\ record = [p \in Procs |-> NilEntry]
  /\ how = [p \in Procs |-> "none"]
  /\ unseen = [p \in Procs |-> FALSE]
  /\ prev = [p \in Procs |-> NoResult]
  /\ last = [l \in Levels |-> NoResult]
  /\ stores = [l \in Levels |-> 0]
  /\ conc = {}

Init == InitState /\ input = NilEntry

InitFmt == InitState /\ input \in FmtEntries

\* ---------------------------------------------------------------- actions

\* skip, ok := stackSkips[level]
CacheHit(level) == level \in DOMAIN stackSkips

\* The look under the shared lock.
FirstLookHitMutNever(level) == FALSE

FirstLookHit(level) == CacheHit(level)

\* The look under the exclusive lock.
SecondLookHitMutNever(level) == FALSE

SecondLookHit(level) == CacheHit(level)

\* stackSkips[level] = i + 1
StoreMutForget(level, d) == stackSkips

Store(level, d) == Put(stackSkips, level, d)

InFlight(q) == pc[q] \notin {"idle", "done"}

\* The goroutines whose returned values the history keeps for the properties
\* to compare; a goroutine outside it calls Format in the same way and is
\* ready to call again as soon as it has its result.
Observed == {1, 2}

\* The goroutine's own variables return to their idle values.
Reset(p) ==
  /\ pc' = [pc EXCEPT ![p] = "idle"]
  /\ entry' = [entry EXCEPT ![p] = NilEntry]
  /\ withSourceInfo' = [withSourceInfo EXCEPT ![p] = FALSE]
  /\ stack' = [stack EXCEPT ![p] = NilStack]
  /\ skip' = [skip EXCEPT ![p] = 0]
  /\ ret' = [ret EXCEPT ![p] = ErrNil]
  /\ out' = [out EXCEPT ![p] = <<>>]
  /\ record' = [record EXCEPT ![p] = NilEntry]
  /\ how' = [how EXCEPT ![p] = "none"]
  /\ unseen' = [unseen EXCEPT ![p] = FALSE]
  /\ prev' = [prev EXCEPT ![p] = NoResult]
  /\ conc' = {c \in conc : p \notin c}

\* Format returns: the rest of Format after getSkipLevel (or all of it, without
\* source info) reads nothing shared and is one step with the return.  h tells
\* where the depth d came from.
Complete(p, s, d, skipErr, h) ==
  IF p \in Observed
    THEN LET r == FormatReturn(entry'[p], withSourceInfo'[p], s, d, skipErr)
         IN /\ pc' = [pc EXCEPT ![p] = "done"]
            /\ stack' = [stack EXCEPT ![p] = s]
            /\ skip' = [skip EXCEPT ![p] = d]
            /\ ret' = [ret EXCEPT ![p] = r.ret]
            /\ out' = [out EXCEPT ![p] = r.out]
            /\ record' = [record EXCEPT ![p] = RecordAfter(entry'[p])]
            /\ how' = [how EXCEPT ![p] = h]
    ELSE Reset(p)

\* The goroutine's call goes on: its entry and formatter stay as they are.
SameCall == UNCHANGED <<entry, withSourceInfo, unseen, prev, conc>>

\* getSkipLevel returns (d, skipErr) to Format.
Returned(p, d, skipErr) ==
  last' = [last EXCEPT ![entry[p].Level] =
             [called |-> TRUE, ok |-> skipErr = ErrNil, depth |-> d]]

\* History of a call's start: whether its level had an entry, what the last
\* call for its level got, and the observed calls under way beside it.
Started(p, e) ==
  IF p \in Observed
    THEN /\ unseen' = [unseen EXCEPT ![p] = ~CacheHit(e.Level)]
         /\ prev' = [prev EXCEPT ![p] = last[e.Level]]
         /\ conc' = conc \cup {{p, q} : q \in {x \in Observed \ {p} : InFlight(x)}}
    ELSE UNCHANGED <<unseen, prev, conc>>

\* A goroutine calls Format(e) on a formatter built by NewGCEFormatter(w).
\* Without source info the call runs to its return; with it, the call reaches
\* stackSkipsMu.RLock().
Begin(p, e, w) ==
  /\ pc[p] = "idle"
  /\ IF NeedsSource(w)
       THEN /\ pc' = [pc EXCEPT ![p] = "rlock"]
            /\ entry' = [entry EXCEPT ![p] = e]
            /\ withSourceInfo' = [withSourceInfo EXCEPT ![p] = w]
            /\ Started(p, e)
            /\ UNCHANGED <<stack, skip, ret, out, record, how>>
       ELSE IF p \in Observed
         THEN /\ entry' = [entry EXCEPT ![p] = e]
              /\ withSourceInfo' = [withSourceInfo EXCEPT ![p] = w]
              /\ Started(p, e)
              /\ Complete(p, NilStack, 0, ErrNil, "none")
         ELSE Reset(p)
  /\ UNCHANGED <<stackSkips, muReaders, muWriter, last, stores, input>>

\* stackSkipsMu.RLock()
RLock(p) ==
  /\ pc[p] = "rlock"
  /\ muWriter = {}
  /\ muReaders' = muReaders \cup {p}
  /\ pc' = [pc EXCEPT ![p] = "rcheck"]
  /\ SameCall
  /\ UNCHANGED <<stackSkips, muWriter, stack, skip, ret, out, record, how, last, stores, input>>

\* The first look at the map, under the shared lock: a hit returns the depth
\* (the deferred RUnlock runs), a miss unlocks and goes on to Lock().
RCheck(p, s) ==
  /\ pc[p] = "rcheck"
  /\ muReaders' = muReaders \ {p}
  /\ IF FirstLookHit(entry[p].Level)
       THEN /\ Returned(p, stackSkips[entry[p].Level], ErrNil)
            /\ IF p \in Observed THEN SameCall ELSE TRUE
            /\ Complete(p, s, stackSkips[entry[p].Level], ErrNil, "shared")
       ELSE /\ pc' = [pc EXCEPT ![p] = "wlock"]
            /\ SameCall
            /\ UNCHANGED <<stack, skip, ret, out, record, how, last>>
  /\ UNCHANGED <<stackSkips, muWriter, stores, input>>

\* stackSkipsMu.Lock()
LockMutNoWait(p) ==
  /\ pc[p] = "wlock"
  /\ muWriter' = muWriter \cup {p}
  /\ pc' = [pc EXCEPT ![p] = "wcheck"]
  /\ SameCall
  /\ UNCHANGED <<stackSkips, muReaders, stack, skip, ret, out, record, how, last, stores, input>>

Lock(p) ==
  /\ pc[p] = "wlock"
  /\ muWriter = {}
  /\ muReaders = {}
  /\ muWriter' = {p}
  /\ pc' = [pc EXCEPT ![p] = "wcheck"]
  /\ SameCall
  /\ UNCHANGED <<stackSkips, muReaders, stack, skip, ret, out, record, how, last, stores, input>>

\* The second look at the map, under the exclusive lock: a hit returns the
\* depth (the deferred Unlock runs), a miss goes on to the walk.
WCheck(p, s) ==
  /\ pc[p] = "wcheck"
  /\ IF SecondLookHit(entry[p].Level)
       THEN /\ Returned(p, stackSkips[entry[p].Level], ErrNil)
            /\ IF p \in Observed THEN SameCall ELSE TRUE
            /\ Complete(p, s, stackSkips[entry[p].Level], ErrNil, "recheck")
            /\ muWriter' = muWriter \ {p}
       ELSE /\ pc' = [pc EXCEPT ![p] = "walk"]
            /\ SameCall
            /\ UNCHANGED <<stack, skip, ret, out, record, how, last, muWriter>>
  /\ UNCHANGED <<stackSkips, muReaders, stores, input>>

WalkMutKeepLock(p, s) ==
  /\ pc[p] = "walk"
  /\ IF p \in Observed THEN SameCall ELSE TRUE
  /\ IF Walked(s).found
       THEN /\ stackSkips' = Store(entry[p].Level, Walked(s).depth)
            /\ stores' = [stores EXCEPT ![entry[p].Level] = @ + 1]
            /\ Returned(p, Walked(s).depth, ErrNil)
            /\ Complete(p, s, Walked(s).depth, ErrNil, "walk")
            /\ muWriter' = muWriter \ {p}
       ELSE /\ Returned(p, 0, ErrSkipNotFound)
            /\ Complete(p, s, 0, ErrSkipNotFound, "walk")
            /\ UNCHANGED <<stackSkips, stores, muWriter>>
  /\ UNCHANGED <<muReaders, input>>

\* runtime.Callers and the loop over its buffer: the first frame outside the
\* framework is stored and returned; without one the call returns
\* ErrSkipNotFound.  Either way the deferred Unlock runs.
Walk(p, s) ==
  /\ pc[p] = "walk"
  /\ muWriter' = muWriter \ {p}
  /\ IF p \in Observed THEN SameCall ELSE TRUE
  /\ IF Walked(s).found
       THEN /\ stackSkips' = Store(entry[p].Level, Walked(s).depth)
            /\ stores' = [stores EXCEPT ![entry[p].Level] = @ + 1]
            /\ Returned(p, Walked(s).depth, ErrNil)
            /\ Complete(p, s, Walked(s).depth, ErrNil, "walk")
       ELSE /\ Returned(p, 0, ErrSkipNotFound)
            /\ Complete(p, s, 0, ErrSkipNotFound, "walk")
            /\ UNCHANGED <<stackSkips, stores>>
  /\ UNCHANGED <<muReaders, input>>

\* The caller takes the result; the goroutine is free to call again.
Return(p) ==
  /\ pc[p] = "done"
  /\ Reset(p)
  /\ UNCHANGED <<stackSkips, muReaders, muWriter, last, stores, input>>

\* Any number of goroutines, any entries, formatters and call paths.
CallFormat(p) == \E e \in ConcEntries, w \in BOOLEAN : Begin(p, e, w)
FirstLook(p) == \E s \in Stacks : RCheck(p, s)
SecondLook(p) == \E s \in Stacks : WCheck(p, s)
StackWalk(p) == \E s \in Stacks : Walk(p, s)

Next ==
  \E p \in Procs :
    \/ CallFormat(p)
    \/ RLock(p)
    \/ FirstLook(p)
    \/ Lock(p)
    \/ SecondLook(p)
    \/ StackWalk(p)
    \/ Return(p)

Spec == Init /\ [][Next]_vars

\* One goroutine formats one entry, drawn from the larger set, again and
\* again, with either kind of formatter and along any call path.
FormatInput == \E w \in BOOLEAN : Begin(1, input, w)

NextFmt ==
  \/ FormatInput
  \/ RLock(1)
  \/ FirstLook(1)
  \/ Lock(1)
  \/ SecondLook(1)
  \/ StackWalk(1)
  \/ Return(1)

SpecFmt == InitFmt /\ [][NextFmt]_vars

\* What runtime.Callers captures need not reach a frame outside the framework:
\* it returns the number of slots it filled, which getSkipLevel does not keep.
\* Besides the call paths above, those whose capture ends after fw framework
\* frames (app = 0), and those that fill the window but for its last slot.
WalkStacks ==
  Stacks
    \cup [fw : 1..MaxFw, app : {0}]
    \cup [fw : {Window - 1}, app : {0, 1}]

WalkFirstLook == \E s \in WalkStacks : RCheck(1, s)
WalkSecondLook == \E s \in WalkStacks : WCheck(1, s)
WalkStackWalk == \E s \in WalkStacks : Walk(1, s)

\* One goroutine calls Format again and again, its walks over any capture.
NextWalk ==
  \/ CallFormat(1)
  \/ RLock(1)
  \/ WalkFirstLook
  \/ Lock(1)
  \/ WalkSecondLook
  \/ WalkStackWalk
  \/ Return(1)

SpecWalk == Init /\ [][NextWalk]_vars

\* sync.RWMutex in its steps, for the questions of progress.  Lock() first
\* takes the mutex that lets one writer at a time through and announces the
\* writer (pc "wwait"): from then on RLock() blocks; the writer has the lock
\* once the readers that were in have left.  Unlock() lets the blocked readers
\* in before it lets the next writer announce itself.
WriterAnnounced == \E q \in Procs : pc[q] = "wwait"

RLockFair(p) == RLock(p) /\ ~WriterAnnounced

LockAnnounce(p) ==
  /\ pc[p] = "wlock"
  /\ ~WriterAnnounced
  /\ muWriter = {}
  /\ pc' = [pc EXCEPT ![p] = "wwait"]
  /\ SameCall
  /\ UNCHANGED <<stackSkips, muReaders, muWriter, stack, skip, ret, out, record, how,
                 last, stores, input>>

LockAcquire(p) ==
  /\ pc[p] = "wwait"
  /\ muReaders = {}
  /\ muWriter' = {p}
  /\ pc' = [pc EXCEPT ![p] = "wcheck"]
  /\ SameCall
  /\ UNCHANGED <<stackSkips, muReaders, stack, skip, ret, out, record, how, last, stores, input>>

NextLive ==
  \E p \in Procs :
    \/ CallFormat(p)
    \/ RLockFair(p)
    \/ FirstLook(p)
    \/ LockAnnounce(p)
    \/ LockAcquire(p)
    \/ SecondLook(p)
    \/ StackWalk(p)
    \/ Return(p)

\* A step of goroutine p from one of its looks or from its walk, whatever it
\* finds there: FirstLook(p), SecondLook(p) and StackWalk(p) are these steps,
\* and one of them is possible whenever p is at a look or at the walk.
Proceed(p) ==
  /\ pc[p] \in {"rcheck", "wcheck", "walk"}
  /\ \E at \in {"wlock", "walk", "done", "idle"} : pc' = [pc EXCEPT ![p] = at]

\* The steps in which the lock serves goroutine p: RLock() while no writer is
\* announced, the writers' mutex while it is free, the grant to the announced
\* writer once the readers have left.
Enter(p) == RLockFair(p) \/ LockAnnounce(p) \/ LockAcquire(p)

\* A goroutine inside getSkipLevel keeps running; the lock serves a waiting
\* reader or writer that can be served again and again.
Fairness == \A p \in Procs : WF_pc(Proceed(p)) /\ SF_vars(Enter(p))

SpecLive == Init /\ [][NextLive]_vars /\ Fairness

\* ------------------------------------------------------------- properties

\* Goroutine p has its result from Format.
Done(p) == pc[p] = "done"

\* Goroutine p's call was made with source info and has returned.
DoneWithSource(p) == Done(p) /\ withSourceInfo[p]

\* Every slot of the Window-slot buffer filled along call path s holds a
\* framework frame.
Exhausted(s) ==
  \A j \in 1..Window :
    /\ Callers(3, Window, s)[j] # 0
    /\ HasPrefix(Frame(s, Callers(3, Window, s)[j]).function, logrusPrefix)

\* The position of the first frame of call path s outside the framework.
FirstOutside(s) ==
  CHOOSE i \in 1..StackLen(s) :
    /\ ~HasPrefix(Frame(s, i).function, logrusPrefix)
    /\ \A j \in 1..(i - 1) : HasPrefix(Frame(s, j).function, logrusPrefix)

\* Two observed calls with source info that overlapped, for one level that had
\* no entry when either began, and have both returned.
RacedUnseen(p, q) ==
  /\ p # q
  /\ DoneWithSource(p) /\ DoneWithSource(q)
  /\ {p, q} \in conc
  /\ entry[p].Level = entry[q].Level
  /\ unseen[p] /\ unseen[q]

BothGotOneDepth(p, q) ==
  /\ ret[p] = ErrNil /\ ret[q] = ErrNil
  /\ skip[p] = skip[q]
  /\ CacheHit(entry[p].Level)
  /\ stackSkips[entry[p].Level] = skip[p]
  /\ stores[entry[p].Level] = 1

\* C1 as stated: two concurrent Format calls with source info for one level
\* that has no entry yet both succeed, get the same depth, and leave exactly
\* one entry for the level.
C1_AsStated ==
  \A p, q \in Observed : RacedUnseen(p, q) => BothGotOneDepth(p, q)

\* C1, amended: the same, for two calls neither of whose windows holds only
\* framework frames and whose fields all have a JSON encoding.
C1_RaceOneDepth ==
  \A p, q \in Observed :
    /\ RacedUnseen(p, q)
    /\ ~Exhausted(stack[p]) /\ ~Exhausted(stack[q])
    /\ \A k \in DOMAIN entry[p].Data : Representable(entry[p].Data[k])
    /\ \A k \in DOMAIN entry[q].Data : Representable(entry[q].Data[k])
    => BothGotOneDepth(p, q)

\* Two calls raced for an unseen level along different call paths: one
\* walked and stored, the other found the entry at its second look.
C1_Witness ==
  \E p, q \in Observed :
    /\ RacedUnseen(p, q)
    /\ ~Exhausted(stack[p]) /\ ~Exhausted(stack[q])
    /\ how[p] = "walk" /\ how[q] = "recheck"
    /\ Walked(stack[p]).depth # Walked(stack[q]).depth
    /\ BothGotOneDepth(p, q)

\* C2: an entry of the skip cache, once there, is never removed and never
\* changes, whatever step follows.
C2_EntriesStay ==
  [][\A l \in DOMAIN stackSkips :
       l \in DOMAIN stackSkips' /\ stackSkips'[l] = stackSkips[l]]_vars

\* A level has its entry, and since then a call for it along a path whose walk
\* would have found another depth, and a call whose walk fails, have returned.
C2_Witness ==
  \E p, q \in Observed :
    /\ DoneWithSource(p) /\ DoneWithSource(q)
    /\ CacheHit(entry[p].Level)
    /\ how[p] = "shared"
    /\ Walked(stack[p]).found
    /\ Walked(stack[p]).depth # stackSkips[entry[p].Level]
    /\ ret[q] = ErrSkipNotFound

\* C3 as stated: of two calls for a level made one after the other, the second
\* walks no stack and gets the depth the first got.
C3_AsStated ==
  \A p \in Observed :
    DoneWithSource(p) /\ prev[p].called
    => how[p] # "walk" /\ skip[p] = prev[p].depth

\* C3, amended: when the first of the two calls got a depth, the second walks
\* no stack, is served from the cache and gets that depth.
C3_SecondFromCache ==
  \A p \in Observed :
    DoneWithSource(p) /\ prev[p].called /\ prev[p].ok
    => /\ how[p] \in {"shared", "recheck"}
       /\ ret[p] # ErrSkipNotFound
       /\ skip[p] = prev[p].depth

\* A call that began after another call for its level had returned a depth,
\* overlapped no observed call, and was served at its first look.
C3_Witness ==
  \E p \in Observed :
    /\ DoneWithSource(p) /\ prev[p].called /\ prev[p].ok
    /\ \A c \in conc : p \notin c
    /\ how[p] = "shared"
    /\ skip[p] = prev[p].depth

\* What a JSON decoder reads where Format wrote the frame as source location.
FrameJSON(frame) ==
  JObject([file |-> JString(frame.file),
           line |-> JNumber(frame.line),
           function |-> JString(frame.function)])

\* C4 as stated: the source location of every successful call with source
\* info is the first frame of that call's own stack outside the framework.
C4_AsStated ==
  \A p \in Observed :
    DoneWithSource(p) /\ ret[p] = ErrNil
    => /\ srcLocKey \in DOMAIN Decode(out[p]).m
       /\ Decode(out[p]).m[srcLocKey] = FrameJSON(Frame(stack[p], FirstOutside(stack[p])))

\* C5: a walk whose window holds only framework frames makes Format return
\* ErrSkipNotFound and no bytes, stores nothing (the level stays without an
\* entry, and no entry is ever 0), and releases the lock.
C5_ExhaustedFails ==
  [][\A p \in Observed :
       pc[p] = "walk" /\ pc'[p] = "done" /\ Exhausted(stack'[p])
       => /\ ret'[p] = ErrSkipNotFound
          /\ out'[p] = <<>>
          /\ stackSkips' = stackSkips
          /\ entry[p].Level \notin DOMAIN stackSkips'
          /\ \A l \in DOMAIN stackSkips' : stackSkips'[l] # 0
          /\ muWriter' = {} /\ muReaders' = {}]_vars

\* A call failed on an exhausted window, its level has no entry, and another
\* goroutine has taken the exclusive lock since.
C5_Witness ==
  \E p, q \in Observed :
    /\ Done(p) /\ how[p] = "walk" /\ Exhausted(stack[p])
    /\ ret[p] = ErrSkipNotFound /\ out[p] = <<>>
    /\ ~CacheHit(entry[p].Level)
    /\ pc[q] = "wcheck" /\ muWriter = {q}
    /\ entry[q].Level = entry[p].Level

\* C8 as stated: per level at most one walk stores a depth, and every other
\* call for the level gets the stored depth at one of its two looks, without
\* walking.
C8_AsStated ==
  /\ \A l \in Levels : stores[l] <= 1
  /\ \A p \in Observed :
       DoneWithSource(p)
       => /\ CacheHit(entry[p].Level)
          /\ skip[p] = stackSkips[entry[p].Level]
          /\ how[p] = "walk" =>
               \A q \in Observed \ {p} :
                 DoneWithSource(q) /\ entry[q].Level = entry[p].Level
                 => how[q] \in {"shared", "recheck"}

\* C8, amended: per level at most one walk stores a depth, and every other
\* call for the level that gets a depth gets the stored one at one of its two
\* looks, without walking; a call whose window is exhausted walks too, stores
\* nothing and fails.
C8_OneStoringWalk ==
  /\ \A l \in Levels : stores[l] <= 1
  /\ \A p \in Observed :
       DoneWithSource(p)
       => IF ret[p] = ErrSkipNotFound
            THEN how[p] = "walk" /\ Exhausted(stack[p])
            ELSE /\ CacheHit(entry[p].Level)
                 /\ stores[entry[p].Level] = 1
                 /\ skip[p] = stackSkips[entry[p].Level]
                 /\ how[p] \in {"shared", "recheck", "walk"}
                 /\ how[p] = "walk" =>
                      \A q \in Observed \ {p} :
                        /\ DoneWithSource(q)
                        /\ entry[q].Level = entry[p].Level
                        /\ ret[q] # ErrSkipNotFound
                        => how[q] \in {"shared", "recheck"}

\* Two overlapping calls for one level: one walked and stored, the other got
\* the stored depth at its second look.
C8_Witness ==
  \E p, q \in Observed :
    /\ DoneWithSource(p) /\ DoneWithSource(q)
    /\ {p, q} \in conc
    /\ entry[p].Level = entry[q].Level
    /\ how[p] = "walk" /\ ret[p] = ErrNil
    /\ how[q] = "recheck" /\ skip[q] = skip[p]
    /\ stores[entry[p].Level] = 1

\* In a step, goroutine p's call without source info neither is inside
\* getSkipLevel nor holds the lock nor has walked nor failed for want of a
\* depth; and the step that runs it leaves the cache and the lock as they were.
NoSourceNoResolve(p) ==
  /\ pc'[p] # "idle" /\ ~withSourceInfo'[p]
     => /\ pc'[p] = "done"
        /\ p \notin muReaders' /\ p \notin muWriter'
        /\ how'[p] = "none"
        /\ ret'[p] # ErrSkipNotFound
  /\ pc[p] = "idle" /\ pc'[p] # "idle" /\ ~withSourceInfo'[p]
     => /\ stackSkips' = stackSkips
        /\ muReaders' = muReaders /\ muWriter' = muWriter
        /\ stores' = stores /\ last' = last

\* C6 as stated: a call without source info walks no stack, takes no lock,
\* never returns ErrSkipNotFound, leaves the cache unchanged, and its output
\* has no source location key.
C6_AsStated ==
  [][\A p \in Observed :
       /\ NoSourceNoResolve(p)
       /\ pc'[p] = "done" /\ ~withSourceInfo'[p]
          => srcLocKey \notin DOMAIN Decode(out'[p]).m]_vars

\* C6, amended: the same, except that the output has the source location key
\* exactly when the entry itself has a field under that key, which is copied
\* like any other field.
C6_NoSourceInfo ==
  [][\A p \in Observed :
       /\ NoSourceNoResolve(p)
       /\ pc'[p] = "done" /\ ~withSourceInfo'[p] /\ ret'[p] = ErrNil
          => (srcLocKey \in DOMAIN Decode(out'[p]).m
                <=> srcLocKey \in DOMAIN entry'[p].Data)]_vars

\* A call without source info has returned its line, with no source location,
\* while the cache holds an entry for its level.
C6_Witness ==
  \E p \in Observed :
    /\ Done(p) /\ ~withSourceInfo[p] /\ ret[p] = ErrNil
    /\ CacheHit(entry[p].Level)
    /\ srcLocKey \notin DOMAIN Decode(out[p]).m

\* C7 as stated: the output of every successful call with source info has
\* the source location key, holding an object with file, line and function.
C7_AsStated ==
  \A p \in Observed :
    DoneWithSource(p) /\ ret[p] = ErrNil
    => /\ srcLocKey \in DOMAIN Decode(out[p]).m
       /\ Decode(out[p]).m[srcLocKey].kind = "object"
       /\ DOMAIN Decode(out[p]).m[srcLocKey].m = {"file", "line", "function"}

\* The severity the claim gives for each level.
SeverityOf(level) ==
  CASE level = DebugLevel -> <<"DEBUG">>
    [] level = InfoLevel -> <<"INFO">>
    [] level = WarnLevel -> <<"WARNING">>
    [] level = ErrorLevel -> <<"ERROR">>
    [] level = FatalLevel -> <<"CRITICAL">>
    [] level = PanicLevel -> <<"ALERT">>
    [] OTHER -> <<>>

\* C9: the severity of every output is the one of the entry's level, the
\* empty string for a level outside the map, never NOTICE or EMERGENCY; and
\* Format fails only for want of a depth or of an encoding for a field, never
\* for the level.
C9_Severity ==
  \A p \in Observed :
    Done(p)
    => /\ ret[p] = ErrNil
          => /\ "severity" \in DOMAIN Decode(out[p]).m
             /\ Decode(out[p]).m["severity"] = JString(SeverityOf(entry[p].Level))
             /\ Decode(out[p]).m["severity"].s \notin {<<"NOTICE">>, <<"EMERGENCY">>}
       /\ ret[p] # ErrNil
          => \/ withSourceInfo[p] /\ ret[p] = ErrSkipNotFound
             \/ \E k \in DOMAIN entry[p].Data : ~Representable(entry[p].Data[k])

\* An entry of a level outside the map was formatted: the call succeeded and
\* the severity is the empty string.
C9_Witness ==
  \E p \in Observed :
    /\ Done(p) /\ entry[p].Level = TraceLevel /\ ret[p] = ErrNil
    /\ Decode(out[p]).m["severity"] = JString(<<>>)

\* What a decoder reads for the Go value v of a field: the text of a string,
\* the text of an error, the number.
ReadsAs(v, j) ==
  CASE v.kind = "string" -> j = JString(v.s)
    [] v.kind = "error" -> j = JString(v.s)
    [] v.kind = "int" -> j = JNumber(v.n)
    [] OTHER -> FALSE

ValidUTF8(s) == \A i \in 1..Len(s) : s[i] # BadByte

\* C10 as stated: decoding the output of a successful call gives the entry's
\* message and time and, under every key of the entry's fields, the entry's
\* value (an error as its text).
C10_AsStated ==
  \A p \in Observed :
    Done(p) /\ ret[p] = ErrNil
    => /\ Decode(out[p]).m["message"] = JString(entry[p].Message)
       /\ Decode(out[p]).m["time"] = JString(FormatRFC3339Nano(entry[p].Time))
       /\ \A k \in DOMAIN entry[p].Data :
            /\ k \in DOMAIN Decode(out[p]).m
            /\ ReadsAs(entry[p].Data[k], Decode(out[p]).m[k])

\* The keys Format writes itself in goroutine p's call.
ReservedKeys(p) ==
  {"time", "severity", "message"}
    \cup (IF withSourceInfo[p] /\ Caller(stack[p], skip[p]).ok THEN {srcLocKey} ELSE {})

\* C10, amended: decoding the output of a successful call gives the entry's
\* time as RFC 3339 text, its message when that is valid UTF-8, and, under
\* every key of the entry's fields that Format does not write itself, the
\* entry's value (an error as its text) when that is valid UTF-8 or a number.
C10_RoundTrip ==
  \A p \in Observed :
    Done(p) /\ ret[p] = ErrNil
    => /\ Decode(out[p]).kind = "object"
       /\ Decode(out[p]).m["time"] = JString(FormatRFC3339Nano(entry[p].Time))
       /\ ValidUTF8(entry[p].Message)
          => Decode(out[p]).m["message"] = JString(entry[p].Message)
       /\ \A k \in DOMAIN entry[p].Data \ ReservedKeys(p) :
            /\ k \in DOMAIN Decode(out[p]).m
            /\ ValidUTF8(entry[p].Data[k].s)
               => ReadsAs(entry[p].Data[k], Decode(out[p]).m[k])

\* An entry with an error under a key of its own and a message with an HTML
\* character was formatted and reads back.
C10_Witness ==
  \E p \in Observed :
    /\ Done(p) /\ ret[p] = ErrNil
    /\ "path" \in DOMAIN entry[p].Data
    /\ entry[p].Data["path"] = GoError(<<"boom">>)
    /\ Decode(out[p]).m["path"] = JString(<<"boom">>)
    /\ Decode(out[p]).m["message"] = JString(entry[p].Message)

\* The bytes are one JSON object followed by one newline and nothing else.
ObjectAndNewline(bytes) ==
  /\ Len(bytes) >= 3
  /\ bytes[Len(bytes)] = Newline
  /\ \A i \in 1..(Len(bytes) - 1) : bytes[i] # Newline
  /\ bytes[1] = Punct("{") /\ bytes[Len(bytes) - 1] = Punct("}")
  /\ Decode(SubSeq(bytes, 1, Len(bytes) - 1)).kind = "object"

\* The error wraps a cause reported by json.Marshal.
IsMarshalFailure(err) ==
  /\ Len(err) > 1
  /\ err[1] = "failed to marshal fields to JSON, "

\* C11: every Format call returns either no error and one JSON object followed
\* by exactly one newline, or an error (ErrSkipNotFound, or a marshal failure
\* with its cause) and no bytes; never bytes with an error, never a part of
\* the output.
C11_OneOutcome ==
  \A p \in Observed :
    Done(p)
    => \/ ret[p] = ErrNil /\ ObjectAndNewline(out[p])
       \/ /\ ret[p] # ErrNil
          /\ out[p] = <<>>
          /\ \/ ret[p] = ErrSkipNotFound /\ withSourceInfo[p]
             \/ IsMarshalFailure(ret[p])

\* A call with source info got its depth and resolved its frame, then failed
\* to encode a field: it returned the marshal failure and no bytes.
C11_Witness ==
  \E p \in Observed :
    /\ DoneWithSource(p)
    /\ how[p] = "walk" /\ Caller(stack[p], skip[p]).ok
    /\ \E k \in DOMAIN entry[p].Data : ~Representable(entry[p].Data[k])
    /\ IsMarshalFailure(ret[p])
    /\ out[p] = <<>>

\* C12 as stated: the output of a successful call has, under the key of every
\* field whose value is an error, the error's text, never an empty object and
\* never nothing; and under the key of every other field the field's value.
C12_AsStated ==
  \A p \in Observed :
    Done(p) /\ ret[p] = ErrNil
    => \A k \in DOMAIN entry[p].Data :
         /\ k \in DOMAIN Decode(out[p]).m
         /\ entry[p].Data[k].kind = "error"
            => /\ Decode(out[p]).m[k] # JObject(<<>>)
               /\ Decode(out[p]).m[k] = JString(entry[p].Data[k].s)
         /\ entry[p].Data[k].kind # "error" /\ ValidUTF8(entry[p].Data[k].s)
            => ReadsAs(entry[p].Data[k], Decode(out[p]).m[k])

CapturedOutside(s, j) ==
  /\ Callers(3, Window, s)[j] # 0
  /\ ~HasPrefix(Frame(s, Callers(3, Window, s)[j]).function, logrusPrefix)

LockDiscipline ==
  /\ Cardinality(muWriter) <= 1
  /\ muWriter # {} => muReaders = {}
  /\ \A p \in Procs :
       /\ pc[p] = "rcheck" <=> p \in muReaders
       /\ pc[p] \in {"wcheck", "walk"} <=> p \in muWriter
       /\ pc[p] = "walk" => ~CacheHit(entry[p].Level)

\* A step that changes the map is the walk of the goroutine that holds the
\* exclusive lock, and every step in which getSkipLevel returns leaves the
\* goroutine holding nothing.
LockedSteps ==
  /\ stackSkips' # stackSkips
     => \E p \in Procs : muWriter = {p} /\ pc[p] = "walk" /\ muReaders = {}
  /\ \A p \in Procs :
       InFlight(p) /\ ~InFlight(p)'
       => p \notin muReaders' /\ p \notin muWriter'

\* C16: the map is written only under the exclusive lock and read only under
\* the shared or the exclusive lock, a writer never coexists with a reader or
\* another writer, the walk runs only under the exclusive lock after the
\* second look missed, and every return of getSkipLevel releases what it took.
C16_LockDiscipline == [](LockDiscipline) /\ [][LockedSteps]_vars

\* A goroutine walks holding the exclusive lock while another, having missed
\* at its first look for the same level, waits for that lock.
C16_Witness ==
  \E p, q \in Procs :
    /\ pc[p] = "walk" /\ muWriter = {p}
    /\ pc[q] = "wlock"
    /\ entry[q].Level = entry[p].Level

\* C17: with a fair lock, every call of Format returns, whatever the other
\* goroutines do, at the same level or another, its walk found or not.
C17_EveryCallReturns ==
  \A p \in Procs : InFlight(p) ~> ~InFlight(p)

\* A goroutine that missed at its first look and released the shared lock has
\* announced itself as writer and waits for a reader that came in meanwhile.
C17_Witness ==
  \E p, q \in Procs :
    /\ pc[p] = "wwait"
    /\ pc[q] = "rcheck" /\ q \in muReaders
    /\ \E l \in Levels : last[l].called /\ ~last[l].ok

\* C18: a call with source info that begins when its level has an entry takes
\* the shared lock only: it never asks for the exclusive lock, never holds it,
\* and gets its depth at the first look.
C18_CachedSharedOnly ==
  \A p \in Observed :
    pc[p] # "idle" /\ withSourceInfo[p] /\ ~unseen[p]
    => /\ pc[p] \in {"rlock", "rcheck", "done"}
       /\ p \notin muWriter
       /\ CacheHit(entry[p].Level)
       /\ Done(p) => how[p] = "shared" /\ ret[p] # ErrSkipNotFound

\* Two calls for one level that had its entry when they began hold the shared
\* lock at the same time.
C18_Witness ==
  \E p, q \in Observed :
    /\ p # q
    /\ ~unseen[p] /\ ~unseen[q]
    /\ entry[p].Level = entry[q].Level
    /\ pc[p] = "rcheck" /\ pc[q] = "rcheck"
    /\ muReaders = {p, q}

\* What the decoder of the output finds under the source location key is the
\* frame runtime.Caller reported at the depth of goroutine p's call.
SourceIsResolvedFrame(p) ==
  withSourceInfo[p] /\ Caller(stack[p], skip[p]).ok
  => /\ srcLocKey \in DOMAIN Decode(out[p]).m
     /\ Decode(out[p]).m[srcLocKey] = FrameJSON(Caller(stack[p], skip[p]).frame)

\* C19 as stated: the output's time, severity and message are the entry's
\* formatted time, mapped level and message, and the source location, when
\* attached, is the resolved frame, whatever the entry's fields hold under
\* these keys.
C19_AsStated ==
  \A p \in Observed :
    Done(p) /\ ret[p] = ErrNil
    => /\ Decode(out[p]).m["time"] = JString(FormatRFC3339Nano(entry[p].Time))
       /\ Decode(out[p]).m["severity"] = JString(SeverityOf(entry[p].Level))
       /\ Decode(out[p]).m["message"] = JString(entry[p].Message)
       /\ SourceIsResolvedFrame(p)

\* The text as it reads back from JSON: U+FFFD for every byte that is not
\* valid UTF-8.
ReadBack(s) == [i \in 1..Len(s) |-> IF s[i] = BadByte THEN ReplChar ELSE s[i]]

\* C19, amended: the same, the message reading back with U+FFFD in place of
\* every byte that is not valid UTF-8.
C19_ReservedFromRecord ==
  \A p \in Observed :
    Done(p) /\ ret[p] = ErrNil
    => /\ Decode(out[p]).m["time"] = JString(FormatRFC3339Nano(entry[p].Time))
       /\ Decode(out[p]).m["severity"] = JString(SeverityOf(entry[p].Level))
       /\ Decode(out[p]).m["message"] = JString(ReadBack(entry[p].Message))
       /\ SourceIsResolvedFrame(p)

\* An entry with a field under the key message was formatted with source
\* info: the output has the entry's message, not the field, and the frame.
C19_Witness ==
  \E p \in Observed :
    /\ DoneWithSource(p) /\ ret[p] = ErrNil
    /\ Caller(stack[p], skip[p]).ok
    /\ "message" \in DOMAIN entry[p].Data
    /\ entry[p].Data["message"] = GoString(<<"/data">>)
    /\ Decode(out[p]).m["message"] = JString(ReadBack(entry[p].Message))
    /\ Decode(out[p]).m["message"] # JString(<<"/data">>)
====
